---- MODULE Spec2Model ----
(***************************************************************************)
(* Password entry of sudo-rs, src/pam/rpassword.rs: the HiddenInput guard  *)
(* over /dev/tty, the two unbuffered readers and the Terminal session.     *)
(*                                                                         *)
(* One call of a Terminal method is a sequence of steps, pc telling where  *)
(* the call stands: HiddenInput::new, one step per iteration of a reader's *)
(* loop, the drop of the guard at scope exit.  The environment decides     *)
(* what the input holds and which system call fails; the failures of one   *)
(* call are recorded in faults.                                            *)
(***************************************************************************)
EXTENDS Integers, Sequences, FiniteSets, TLC

(* ------------------------------ bounds -------------------------------- *)

\* Size of a PamBuffer in bytes (512 in the program, scaled down).
Capacity == 3

\* Longest input generated exhaustively.
MaxInput == 3

(* ----------------------------- constants ------------------------------ *)

EOL == 10

CR == 13

BACKSPACE == 8

SPACE == 32

STAR == 42

\* The byte of the tests' long passwords, 'a'.
LetterA == 97

(* ------------------------------ PamBuffer ----------------------------- *)

\* PamBuffer::default(): Capacity zero bytes.
PamBuffer_default == [k \in 1..Capacity |-> 0]

\* Length of the slice a PamBuffer dereferences to: the last byte is kept
\* zero, out of reach of iter_mut() and get_mut().
Slots == Capacity - 1

\* pwd_iter.next() / password.get_mut(n): Some(dest) for the slot after n
\* stored bytes.
has_slot(n) == n < Slots

(* ------------------------------ termios ------------------------------- *)

\* The terminal settings the user may have before a call: the usual cooked
\* mode with DEL as erase, and a mode with echo already off and ^H as erase.
Cooked ==
    [c_lflag |-> [ECHO |-> TRUE, ECHONL |-> FALSE, ICANON |-> TRUE],
     c_cc |-> [VEOF |-> 4, VERASE |-> 127, VKILL |-> 21]]

Quiet ==
    [c_lflag |-> [ECHO |-> FALSE, ECHONL |-> FALSE, ICANON |-> FALSE],
     c_cc |-> [VEOF |-> 4, VERASE |-> 8, VKILL |-> 21]]

Settings == {Cooked, Quiet}

\* Mutant of term_modified: the flags are left as they were found.
term_modified_as(term, feedback) == term

\* Mutant of term_modified: canonical mode is turned off for every read.
term_modified_raw(term, feedback) ==
    [term EXCEPT !.c_lflag = [ECHO |-> FALSE, ECHONL |-> TRUE, ICANON |-> FALSE]]

\* HiddenInput::new, lines 47-55: the working copy of the settings.
term_modified(term, feedback) ==
    [term EXCEPT !.c_lflag =
        [ECHO |-> FALSE,
         ECHONL |-> TRUE,
         ICANON |-> IF feedback THEN FALSE ELSE term.c_lflag.ICANON]]

(* ------------------------------- inputs ------------------------------- *)

\* Bytes of the exhaustive inputs: the two line ends and the control codes
\* of both settings.  DEL is an ordinary byte under Quiet and ^H one under
\* Cooked; the directed inputs add letters.
Bytes == {EOL, CR, 4, 8, 21, 127}

RECURSIVE SeqsUpTo(_, _)
SeqsUpTo(S, n) ==
    IF n = 0 THEN {<<>>}
    ELSE LET shorter == SeqsUpTo(S, n - 1)
         IN shorter \cup {Append(s, b) : s \in {t \in shorter : Len(t) = n - 1}, b \in S}

RECURSIVE Repeat(_, _)
Repeat(s, n) == IF n <= 0 THEN <<>> ELSE s \o Repeat(s, n - 1)

\* Directed inputs: the capacity boundary of the tests (511 and 512 letters,
\* scaled), a line followed by more input, and the editing examples.
Examples ==
    {Repeat(<<LetterA>>, Slots),
     Repeat(<<LetterA>>, Slots) \o <<EOL>>,
     Repeat(<<LetterA>>, Slots) \o <<EOL, 98>>,
     Repeat(<<LetterA>>, Capacity),
     Repeat(<<LetterA>>, Capacity) \o <<EOL>>,
     Repeat(<<LetterA>>, Capacity) \o <<98, EOL>>,
     <<LetterA, 98, EOL, 99, 100>>,
     <<LetterA, 98, 127, 99, EOL>>,
     <<LetterA, 98, 8, 99, CR>>,
     <<LetterA, 98, 99, 21, EOL>>,
     <<LetterA, 98, 21, EOL>>,
     <<LetterA, 98, 4, 99>>}

Inputs == SeqsUpTo(Bytes, MaxInput) \cup Examples

\* Texts given to prompt().
Prompts == {<<>>, <<80, 58>>}

(* ------------------------------- state -------------------------------- *)

VARIABLES
    kind,        \* the Terminal variant: "Tty" or "StdIE"
    tty,         \* the settings of /dev/tty (its termios)
    source,      \* the bytes the session's input still holds
    sink,        \* the bytes the current call has written to the session's output
    pc,          \* where the current call stands
    op,          \* the Terminal method being run
    hide_input,  \* the live HiddenInput: <<>> or <<[term_orig |-> termios]>>
    password,    \* the PamBuffer of the reader
    i,           \* the number of bytes stored in password
    result,      \* "none", "Ok", "SecretTooLong" (ErrorKind::OutOfMemory) or "IoError"
    callSource,  \* history: source when the current call began
    callTty,     \* history: tty when the current call began
    acquired,    \* history: HiddenInputs created by the current call
    restored,    \* history: tcsetattr calls of HiddenInput::drop in the current call
    faults,      \* history: the system calls that failed in the current call
    callText,    \* history: the text given to the current call (<<>> but for prompt)
    channel,     \* history: the output the current call took for its sink ("none" if none)
    flushed      \* history: the current call has flushed its sink with success

vars ==
    <<kind, tty, source, sink, pc, op, hide_input, password, i, result,
      callSource, callTty, acquired, restored, faults, callText, channel, flushed>>

Init ==
    /\ kind \in {"Tty", "StdIE"}
    /\ tty \in Settings
    /\ source \in Inputs
    /\ sink = <<>>
    /\ pc = "idle"
    /\ op = "none"
    /\ hide_input = <<>>
    /\ password = PamBuffer_default
    /\ i = 0
    /\ result = "none"
    /\ callSource = source
    /\ callTty = tty
    /\ acquired = 0
    /\ restored = 0
    /\ faults = {}
    /\ callText = <<>>
    /\ channel = "none"
    /\ flushed = FALSE

(* ----------------------- Terminal: the read calls --------------------- *)

\* Entry of a Terminal method: the previous call (if any) has returned.
Begin(method, next) ==
    /\ pc \in {"idle", "done"}
    /\ op' = method
    /\ pc' = next
    /\ sink' = <<>>
    /\ password' = PamBuffer_default
    /\ i' = 0
    /\ result' = "none"
    /\ callSource' = source
    /\ callTty' = tty
    /\ acquired' = 0
    /\ restored' = 0
    /\ faults' = {}
    /\ callText' = <<>>
    /\ channel' = "none"
    /\ flushed' = FALSE
    /\ UNCHANGED <<kind, tty, source, hide_input>>

\* Terminal::read_password: HiddenInput::new(false)?, then read_unbuffered.
read_password == Begin("read_password", "new")

\* Terminal::read_password_with_feedback: HiddenInput::new(true)?, then the
\* reader the outcome selects.
read_password_with_feedback == Begin("read_password_with_feedback", "new")

\* Mutant of read_cleartext: the input is hidden as in read_password.
read_cleartext_as == Begin("read_cleartext", "new")

\* Terminal::read_cleartext: read_unbuffered with no HiddenInput.
read_cleartext == Begin("read_cleartext", "read_unbuffered")

\* Terminal::sink (lines 243-248; the same choice in lines 210-216): the
\* output of the session.
Terminal_sink(variant) == IF variant = "Tty" THEN "/dev/tty" ELSE "stderr"

\* The reader run once HiddenInput::new has returned Ok(guard): the feedback
\* reader needs Some(guard) (line 218), everything else is read_unbuffered.
reader_after_new(method, guard) ==
    IF method = "read_password_with_feedback" /\ guard # <<>>
    THEN "read_unbuffered_with_feedback"
    ELSE "read_unbuffered"

(* ----------------------------- HiddenInput ---------------------------- *)

\* Mutant of tty_unavailable: the failure to open /dev/tty is returned to
\* the caller as an error.
tty_unavailable_as(method) == [pc |-> "done", result |-> "IoError"]

\* Lines 35-38: /dev/tty cannot be opened.  HiddenInput::new returns
\* Ok(None), which is no error for the caller: it goes on to its reader.
tty_unavailable(method) ==
    [pc |-> reader_after_new(method, <<>>), result |-> "none"]

\* Mutant of new_failed: the failure is taken as that of opening the device
\* and the input is read all the same, echo not turned off.
new_failed_as(method) == [pc |-> "read_unbuffered", result |-> "none"]

\* HiddenInput::new returns Err (the ? of lines 43, 44 and 59) and the
\* caller returns it at once (the ? of lines 204 and 218): no reader runs,
\* no HiddenInput exists to drop.
new_failed(method) == [pc |-> "done", result |-> "IoError"]

\* HiddenInput::new(feedback), as called by the two password methods.
HiddenInput_new ==
    /\ pc = "new"
    /\ \/ \* fs::File::open("/dev/tty") fails: Ok(None)
          /\ faults' = faults \cup {"open"}
          /\ pc' = tty_unavailable(op).pc
          /\ result' = tty_unavailable(op).result
          /\ UNCHANGED <<tty, hide_input, acquired, channel>>
       \/ \* one of the two safe_tcgetattr calls fails: Err, the caller returns it
          /\ faults' = faults \cup {"tcgetattr"}
          /\ result' = new_failed(op).result
          /\ pc' = new_failed(op).pc
          /\ UNCHANGED <<tty, hide_input, acquired, channel>>
       \/ \* tcsetattr fails: Err, no HiddenInput was built, nothing to drop
          /\ faults' = faults \cup {"tcsetattr"}
          /\ result' = new_failed(op).result
          /\ pc' = new_failed(op).pc
          /\ UNCHANGED <<tty, hide_input, acquired, channel>>
       \/ \* Ok(Some(HiddenInput { tty, term_orig }))
          /\ tty' = term_modified(tty, op = "read_password_with_feedback")
          /\ hide_input' = <<[term_orig |-> tty]>>
          /\ acquired' = acquired + 1
          /\ pc' = reader_after_new(op, hide_input')
          /\ channel' = IF pc' = "read_unbuffered_with_feedback"
                        THEN Terminal_sink(kind)
                        ELSE channel
          /\ UNCHANGED <<result, faults>>
    /\ UNCHANGED <<kind, source, sink, op, password, i, callSource, callTty, restored,
                   callText, flushed>>

\* Mutant of restore: the drop applies the working copy, not the backup.
restore_as(guard) == term_modified(guard.term_orig, FALSE)

\* The settings tcsetattr(TCSANOW, &term_orig) leaves when it succeeds.
restore(guard) == guard.term_orig

\* Scope exit of a read method: the PamBuffer of a failed read is dropped
\* (wiped) and the HiddenInput, if any, is dropped: tcsetattr with the
\* backup, its result ignored.
HiddenInput_drop ==
    /\ pc = "drop"
    /\ pc' = "done"
    /\ password' = IF result = "Ok" THEN password ELSE PamBuffer_default
    /\ hide_input' = <<>>
    /\ \/ /\ hide_input = <<>>
          /\ UNCHANGED <<tty, restored, faults>>
       \/ /\ hide_input # <<>>
          /\ restored' = restored + 1
          /\ \/ /\ tty' = restore(hide_input[1])
                /\ UNCHANGED faults
             \/ /\ faults' = faults \cup {"restore"}
                /\ UNCHANGED tty
    /\ UNCHANGED <<kind, source, sink, op, i, result, callSource, callTty, acquired,
                   callText, channel, flushed>>

(* ------------------------- read_unbuffered ---------------------------- *)

\* Mutant of is_eol: a carriage return ends the line too.
is_eol_as(byte) == byte = EOL \/ byte = CR

\* The take_while predicate of line 89, on a byte read without error: the
\* iteration ends at the first EOL (an Err item is let through).
is_eol(byte) == byte = EOL

\* Mutant of store: the slot is taken one too far.
store_as(pw, n, byte) == [pw EXCEPT ![n + 2] = byte]

\* *dest = byte, dest being the slot after n stored bytes.
store(pw, n, byte) == [pw EXCEPT ![n + 1] = byte]

\* Mutant of out_of_memory: the loop stops and the truncated secret is
\* returned.
out_of_memory_as == "Ok"

\* Error::new(ErrorKind::OutOfMemory, "incorrect password attempt").
out_of_memory == "SecretTooLong"

\* What an item that passed take_while does, lines 92-99: the slot is taken
\* first; read_byte? fails with the read error only when there is a slot.
unbuffered_error(n) == IF has_slot(n) THEN "IoError" ELSE out_of_memory

\* Mutant of left_at_error: the rest of the input is read and thrown away
\* before the error is returned.
left_at_error_as(src) == <<>>

\* return Err(..) of lines 95-98: the loop is left at once; the byte the
\* iterator had yielded is gone, what follows it stays in the source.
left_at_error(src) == Tail(src)

\* One iteration of the loop of read_unbuffered (source.bytes() yields one
\* item), or its end.
read_unbuffered ==
    /\ pc = "read_unbuffered"
    /\ \/ \* end of stream: the loop ends, Ok(password)
          /\ source = <<>>
          /\ result' = "Ok"
          /\ pc' = "drop"
          /\ UNCHANGED <<source, password, i, faults>>
       \/ \* the newline: consumed, not stored, Ok(password)
          /\ source # <<>>
          /\ is_eol(Head(source))
          /\ source' = Tail(source)
          /\ result' = "Ok"
          /\ pc' = "drop"
          /\ UNCHANGED <<password, i, faults>>
       \/ \* a byte and a free slot: stored
          /\ source # <<>>
          /\ ~is_eol(Head(source))
          /\ has_slot(i)
          /\ source' = Tail(source)
          /\ password' = store(password, i, Head(source))
          /\ i' = i + 1
          /\ UNCHANGED <<result, pc, faults>>
       \/ \* a byte and no slot left: consumed, Err(OutOfMemory)
          /\ source # <<>>
          /\ ~is_eol(Head(source))
          /\ ~has_slot(i)
          /\ source' = left_at_error(source)
          /\ result' = out_of_memory
          /\ pc' = "drop"
          /\ UNCHANGED <<password, i, faults>>
       \/ \* the read fails: the item is Err(e)
          /\ faults' = faults \cup {"read"}
          /\ result' = unbuffered_error(i)
          /\ pc' = "drop"
          /\ UNCHANGED <<source, password, i>>
    /\ UNCHANGED <<kind, tty, sink, op, hide_input, callSource, callTty, acquired, restored,
                   callText, channel, flushed>>

(* -------------------- read_unbuffered_with_feedback ------------------- *)

\* Mutant of erase_sequence: the cursor moves back and nothing is blanked.
erase_sequence_as == <<BACKSPACE>>

\* The three bytes of line 109 (and 137, 146).
erase_sequence == <<BACKSPACE, SPACE, BACKSPACE>>

\* Mutant of erase_feedback: one erase sequence, however many marks.
erase_feedback_as(out, k) == IF k > 0 THEN out \o <<BACKSPACE, SPACE, BACKSPACE>> ELSE out

\* erase_feedback(sink, n) whose first k writes succeed: it stops at the
\* first write that fails.
erase_feedback(out, k) == out \o Repeat(erase_sequence, k)

\* Mutant of clear_last: the length is decremented, the byte is left.
clear_last_as(pw, n) == pw

\* password[n - 1] = 0 for the last of n stored bytes (lines 144-145).
clear_last(pw, n) == [pw EXCEPT ![n] = 0]

\* Mutant of clear_all: only the last stored byte is zeroed.
clear_all_as(pw, n) == IF n = 0 THEN pw ELSE [pw EXCEPT ![n] = 0]

\* The while loops of lines 134-138 and 150-153: every stored byte zeroed.
clear_all(pw, n) == [k \in 1..Capacity |-> IF k <= n THEN 0 ELSE pw[k]]

\* Mutant of newline_result: the failure of the newline write is ignored
\* like that of the other writes.
newline_result_as(written) == "Ok"

\* sink.write(&[b'\n'])? of line 129: the failure of this write is returned.
newline_result(written) == IF written THEN "Ok" ELSE "IoError"

\* The byte classes of the loop body, in the order the code tests them.
is_line_end(byte) == byte = EOL \/ byte = CR

\* Mutant of is_eof: the byte is compared with c_cc[VKILL].
is_eof_as(byte, cc) == ~(byte = EOL \/ byte = CR) /\ byte = cc.VKILL

is_eof(byte, cc) == ~is_line_end(byte) /\ byte = cc.VEOF

is_erase(byte, cc) == ~is_line_end(byte) /\ ~is_eof(byte, cc) /\ byte = cc.VERASE

is_kill(byte, cc) ==
    ~is_line_end(byte) /\ ~is_eof(byte, cc) /\ ~is_erase(byte, cc) /\ byte = cc.VKILL

is_other(byte, cc) ==
    ~is_line_end(byte) /\ ~is_eof(byte, cc) /\ ~is_erase(byte, cc) /\ ~is_kill(byte, cc)

\* One iteration of the loop of read_unbuffered_with_feedback, with every
\* write it makes to the sink, or its end.  A write to the sink may fail.
read_unbuffered_with_feedback ==
    /\ pc = "read_unbuffered_with_feedback"
    /\ LET cc == hide_input[1].term_orig.c_cc
           read_byte == Head(source)
       IN
       \/ \* end of stream: the loop ends, Ok(password)
          /\ source = <<>>
          /\ result' = "Ok"
          /\ pc' = "drop"
          /\ UNCHANGED <<source, sink, password, i, faults>>
       \/ \* the read fails: read_byte? returns the error
          /\ faults' = faults \cup {"read"}
          /\ result' = "IoError"
          /\ pc' = "drop"
          /\ UNCHANGED <<source, sink, password, i>>
       \/ \* '\n' or '\r': erase_feedback, then the newline, whose failure is returned
          /\ source # <<>>
          /\ is_line_end(read_byte)
          /\ source' = Tail(source)
          /\ \E k \in 0..i, newline \in BOOLEAN :
                /\ sink' = erase_feedback(sink, k) \o (IF newline THEN <<EOL>> ELSE <<>>)
                /\ result' = newline_result(newline)
                /\ faults' = faults \cup (IF k < i THEN {"write"} ELSE {})
                                     \cup (IF newline THEN {} ELSE {"write", "newline"})
          /\ pc' = "drop"
          /\ UNCHANGED <<password, i>>
       \/ \* c_cc[VEOF]: every byte cleared, one erase sequence each, Ok(password)
          /\ source # <<>>
          /\ is_eof(read_byte, cc)
          /\ source' = Tail(source)
          /\ password' = clear_all(password, i)
          /\ i' = 0
          /\ \E k \in 0..i :
                /\ sink' = sink \o Repeat(erase_sequence, k)
                /\ faults' = faults \cup (IF k < i THEN {"write"} ELSE {})
          /\ result' = "Ok"
          /\ pc' = "drop"
       \/ \* c_cc[VERASE] with a byte entered: the last byte cleared
          /\ source # <<>>
          /\ is_erase(read_byte, cc)
          /\ i > 0
          /\ source' = Tail(source)
          /\ password' = clear_last(password, i)
          /\ i' = i - 1
          /\ \/ /\ sink' = sink \o erase_sequence
                /\ UNCHANGED faults
             \/ /\ faults' = faults \cup {"write"}
                /\ UNCHANGED sink
          /\ UNCHANGED <<result, pc>>
       \/ \* c_cc[VERASE] with nothing entered: nothing
          /\ source # <<>>
          /\ is_erase(read_byte, cc)
          /\ i = 0
          /\ source' = Tail(source)
          /\ UNCHANGED <<sink, password, i, result, pc, faults>>
       \/ \* c_cc[VKILL]: erase_feedback, every byte cleared
          /\ source # <<>>
          /\ is_kill(read_byte, cc)
          /\ source' = Tail(source)
          /\ \E k \in 0..i :
                /\ sink' = erase_feedback(sink, k)
                /\ faults' = faults \cup (IF k < i THEN {"write"} ELSE {})
          /\ password' = clear_all(password, i)
          /\ i' = 0
          /\ UNCHANGED <<result, pc>>
       \/ \* any other byte and a free slot: stored, one '*'
          /\ source # <<>>
          /\ is_other(read_byte, cc)
          /\ has_slot(i)
          /\ source' = Tail(source)
          /\ password' = store(password, i, read_byte)
          /\ i' = i + 1
          /\ \/ /\ sink' = sink \o <<STAR>>
                /\ UNCHANGED faults
             \/ /\ faults' = faults \cup {"write"}
                /\ UNCHANGED sink
          /\ UNCHANGED <<result, pc>>
       \/ \* any other byte and no slot left: erase_feedback, Err(OutOfMemory)
          /\ source # <<>>
          /\ is_other(read_byte, cc)
          /\ ~has_slot(i)
          /\ source' = Tail(source)
          /\ \E k \in 0..i :
                /\ sink' = erase_feedback(sink, k)
                /\ faults' = faults \cup (IF k < i THEN {"write"} ELSE {})
          /\ result' = out_of_memory
          /\ pc' = "drop"
          /\ UNCHANGED <<password, i>>
    /\ UNCHANGED <<kind, tty, op, hide_input, callSource, callTty, acquired, restored,
                   callText, channel, flushed>>

(* ------------------------------- prompt ------------------------------- *)

\* Mutant of write_unbuffered: the text is written and the sink is not
\* flushed.
write_unbuffered_as(out, text, k, flush_ok) ==
    [sink |-> out \o SubSeq(text, 1, k),
     result |-> IF k = Len(text) THEN "Ok" ELSE "IoError",
     flushed |-> FALSE]

\* write_unbuffered(sink, text): write_all, which may fail after k bytes,
\* then flush, which is reached when write_all succeeded and may fail too.
write_unbuffered(out, text, k, flush_ok) ==
    [sink |-> out \o SubSeq(text, 1, k),
     result |-> IF k = Len(text) /\ flush_ok THEN "Ok" ELSE "IoError",
     flushed |-> k = Len(text) /\ flush_ok]

\* Terminal::prompt(text).
prompt ==
    /\ pc \in {"idle", "done"}
    /\ \E text \in Prompts, k \in 0..2, flush_ok \in BOOLEAN :
          /\ k <= Len(text)
          /\ LET r == write_unbuffered(<<>>, text, k, flush_ok) IN
             /\ sink' = r.sink
             /\ result' = r.result
             /\ flushed' = r.flushed
             /\ faults' = IF k = Len(text) /\ flush_ok THEN {} ELSE {"write"}
          /\ callText' = text
    /\ channel' = Terminal_sink(kind)
    /\ op' = "prompt"
    /\ pc' = "done"
    /\ password' = PamBuffer_default
    /\ i' = 0
    /\ callSource' = source
    /\ callTty' = tty
    /\ acquired' = 0
    /\ restored' = 0
    /\ UNCHANGED <<kind, tty, source, hide_input>>

(* ---------------------------- specification --------------------------- *)

Next ==
    \/ read_password
    \/ read_password_with_feedback
    \/ read_cleartext
    \/ prompt
    \/ HiddenInput_new
    \/ read_unbuffered
    \/ read_unbuffered_with_feedback
    \/ HiddenInput_drop

Spec == Init /\ [][Next]_vars

(* ------------------------------- claims ------------------------------- *)

ReadOps == {"read_password", "read_password_with_feedback", "read_cleartext"}

\* The current call went through read_unbuffered: read_cleartext,
\* read_password, or read_password_with_feedback without a guard.
RanUnbuffered ==
    /\ op \in ReadOps
    /\ pc \in {"read_unbuffered", "drop", "done"}
    /\ faults \cap {"tcgetattr", "tcsetattr"} = {}
    /\ op = "read_password_with_feedback" => acquired = 0

\* The current call went through read_unbuffered_with_feedback.
RanFeedback == op = "read_password_with_feedback" /\ acquired = 1

\* No read of the input failed (no write to the sink failed) in this call.
InputRead == "read" \notin faults

SinkWritten == "write" \notin faults

\* A buffer holding the bytes of s followed only by zero bytes.
Padded(s) == [k \in 1..Capacity |-> IF k <= Len(s) THEN s[k] ELSE 0]

\* s without its first n bytes.
Drop(s, n) == SubSeq(s, n + 1, Len(s))

\* The number of bytes of s before its first byte in S (Len(s) if none).
Before(s, S) ==
    IF \E n \in 1..Len(s) : s[n] \in S
    THEN (CHOOSE n \in 1..Len(s) : s[n] \in S /\ \A m \in 1..(n - 1) : s[m] \notin S) - 1
    ELSE Len(s)

\* C1: after any read call on a Tty session has returned, whatever the
\* outcome of the read, the echo, newline-echo and canonical-mode flags of
\* the terminal are those of before the call (the tcsetattr of the drop,
\* whose failure the code cannot report, having succeeded).
C1_FlagsRestored ==
    (pc = "done" /\ kind = "Tty" /\ op \in ReadOps /\ "restore" \notin faults)
        => tty.c_lflag = callTty.c_lflag

\* C1 witness: a feedback read on a Tty session in cooked mode that changed
\* the flags, failed on the write of the newline and restored them.
C1_Witness ==
    /\ pc = "done"
    /\ kind = "Tty"
    /\ op = "read_password_with_feedback"
    /\ acquired = 1
    /\ restored = 1
    /\ faults = {"write", "newline"}
    /\ result = "IoError"
    /\ callTty = Cooked
    /\ tty = Cooked

\* C2: a silent read of an input with a newline after fewer than Capacity
\* bytes succeeds; the buffer holds the bytes before the first newline and
\* then only zeros; the newline is consumed and not stored; everything
\* after it is still in the source.
C2_SilentLine ==
    LET n == Before(callSource, {EOL}) IN
    (pc = "done" /\ RanUnbuffered /\ InputRead /\ n < Len(callSource) /\ n < Capacity)
        => /\ result = "Ok"
           /\ password = Padded(SubSeq(callSource, 1, n))
           /\ source = Drop(callSource, n + 1)

\* C2 witness: the scaled input of miri_test_read, "ab\ncd".
C2_Witness ==
    /\ pc = "done"
    /\ op = "read_cleartext"
    /\ callSource = <<97, 98, 10, 99, 100>>
    /\ result = "Ok"
    /\ password = Padded(<<97, 98>>)
    /\ source = <<99, 100>>

\* C3 as stated: a silent read of an input of at least Capacity bytes with
\* no newline among its first Capacity - 1 bytes fails with SecretTooLong.
C3_Original ==
    (/\ pc = "done" /\ RanUnbuffered /\ InputRead
     /\ Len(callSource) >= Capacity
     /\ \A n \in 1..(Capacity - 1) : callSource[n] # EOL)
        => result = "SecretTooLong"

\* C3 amended: a silent read of an input of at least Capacity bytes with no
\* newline among its first Capacity bytes fails with SecretTooLong.
C3_TooLong ==
    (/\ pc = "done" /\ RanUnbuffered /\ InputRead
     /\ Len(callSource) >= Capacity
     /\ \A n \in 1..Capacity : callSource[n] # EOL)
        => result = "SecretTooLong"

\* C3 witness: Capacity letters and more input behind them.
C3_Witness ==
    /\ pc = "done"
    /\ op = "read_password"
    /\ InputRead
    /\ callSource = Repeat(<<LetterA>>, Capacity) \o <<98, EOL>>
    /\ result = "SecretTooLong"

\* C4: the longest secret a silent read accepts has Capacity - 1 bytes:
\* Capacity - 1 bytes ended by a newline or by the end of the stream are
\* returned as the secret, Capacity bytes with no newline fail, and no
\* returned secret is longer.
C4_Boundary ==
    LET n == Before(callSource, {EOL}) IN
    (pc = "done" /\ RanUnbuffered /\ InputRead)
        => /\ n = Capacity - 1
              => result = "Ok" /\ password = Padded(SubSeq(callSource, 1, Capacity - 1))
           /\ n >= Capacity => result # "Ok"
           /\ result = "Ok" => i <= Capacity - 1 /\ password[Capacity] = 0

\* C4 witness: Capacity - 1 letters ended by the end of the stream (the 511
\* letters of miri_test_longpwd) are accepted.
C4_Witness ==
    /\ pc = "done"
    /\ op = "read_cleartext"
    /\ callSource = Repeat(<<LetterA>>, Capacity - 1)
    /\ result = "Ok"
    /\ i = Capacity - 1
    /\ password = Padded(Repeat(<<LetterA>>, Capacity - 1))

\* The line and the display the spec's editing rules give for the bytes s,
\* none of them a line end or the end-of-input code, under the control
\* codes cc: an ordinary byte appends and shows one '*', the erase code
\* removes the last character and shows one erase sequence (nothing on an
\* empty line), the kill code empties the line and shows one erase sequence
\* per character.
RECURSIVE Line(_, _)
Line(s, cc) ==
    IF s = <<>> THEN <<>>
    ELSE LET before == Line(SubSeq(s, 1, Len(s) - 1), cc)
             byte == s[Len(s)]
         IN IF byte = cc.VERASE
            THEN SubSeq(before, 1, Len(before) - 1)
            ELSE IF byte = cc.VKILL THEN <<>> ELSE Append(before, byte)

RECURSIVE Shown(_, _)
Shown(s, cc) ==
    IF s = <<>> THEN <<>>
    ELSE LET front == SubSeq(s, 1, Len(s) - 1)
             before == Line(front, cc)
             byte == s[Len(s)]
         IN IF byte = cc.VERASE
            THEN Shown(front, cc) \o (IF before = <<>> THEN <<>> ELSE <<8, 32, 8>>)
            ELSE IF byte = cc.VKILL
                 THEN Shown(front, cc) \o Repeat(<<8, 32, 8>>, Len(before))
                 ELSE Append(Shown(front, cc), 42)

\* The bytes of s are edits and at no point hold more than Capacity - 1
\* characters.
Fits(s, cc) == \A k \in 0..Len(s) : Len(Line(SubSeq(s, 1, k), cc)) <= Capacity - 1

\* A byte that is neither a line end nor one of the three control codes.
Ordinary(byte, cc) == byte \notin {10, 13, cc.VEOF, cc.VERASE, cc.VKILL}

\* C5: a feedback read of ordinary bytes, erase codes and kill codes that
\* never hold more than Capacity - 1 characters, followed by a newline or a
\* carriage return, succeeds and returns the edits applied in order to an
\* empty line (the display writes succeeding); an erase code on an empty
\* line changes neither the buffer nor the display.
C5_Edits ==
    LET cc == callTty.c_cc
        n == Before(callSource, {10, 13, cc.VEOF})
        edits == SubSeq(callSource, 1, n)
    IN (/\ pc = "done" /\ RanFeedback /\ InputRead /\ SinkWritten
        /\ n < Len(callSource)
        /\ callSource[n + 1] \in {10, 13}
        /\ Fits(edits, cc))
           => /\ result = "Ok"
              /\ password = Padded(Line(edits, cc))
              /\ i = Len(Line(edits, cc))
              /\ sink = Shown(edits, cc) \o Repeat(<<8, 32, 8>>, i) \o <<10>>
              /\ source = Drop(callSource, n + 1)

\* C5 witness: "ab", erase, "c", carriage return with ^H as the erase code.
C5_Witness ==
    /\ pc = "done"
    /\ RanFeedback
    /\ faults = {}
    /\ callTty = Quiet
    /\ callSource = <<97, 98, 8, 99, 13>>
    /\ result = "Ok"
    /\ password = Padded(<<97, 99>>)

\* C6 as stated: the feedback read of 'a', 'b', erase, 'c', newline returns
\* "ac" and writes exactly '*', '*', erase sequence, '*', newline.
C6_Original ==
    (/\ pc = "done" /\ RanFeedback /\ faults = {}
     /\ callSource = <<97, 98, callTty.c_cc.VERASE, 99, 10>>)
        => /\ result = "Ok"
           /\ password = Padded(<<97, 99>>)
           /\ sink = <<42, 42, 8, 32, 8, 42, 10>>

\* C6 amended: the feedback read of 'a', 'b', erase, 'c', newline returns
\* "ac" and writes exactly '*', '*', erase sequence, '*', then one erase
\* sequence for each of the two marks still drawn, then the newline.
C6_Display ==
    (/\ pc = "done" /\ RanFeedback /\ faults = {}
     /\ callSource = <<97, 98, callTty.c_cc.VERASE, 99, 10>>)
        => /\ result = "Ok"
           /\ password = Padded(<<97, 99>>)
           /\ sink = <<42, 42, 8, 32, 8, 42, 8, 32, 8, 8, 32, 8, 10>>

\* C6 witness: that input read to its newline under the cooked settings.
C6_Witness ==
    /\ pc = "done"
    /\ RanFeedback
    /\ faults = {}
    /\ callTty = Cooked
    /\ callSource = <<97, 98, 127, 99, 10>>
    /\ source = <<>>
    /\ result = "Ok"

\* C7: in a feedback read whose display writes succeed, the kill code
\* arriving with i characters entered writes exactly i erase sequences,
\* zeroes the stored bytes and sets the length to 0; a line end arriving
\* on the empty line writes only the newline and returns the empty secret.
C7_Kill ==
    [][(/\ pc = "read_unbuffered_with_feedback"
        /\ source # <<>>
        /\ source' = Tail(source)
        /\ SinkWritten'
        /\ InputRead')
          => /\ Head(source) = hide_input[1].term_orig.c_cc.VKILL
                => /\ sink' = sink \o Repeat(<<8, 32, 8>>, i)
                   /\ password' = Padded(<<>>)
                   /\ i' = 0
                   /\ pc' = pc
             /\ (Head(source) \in {10, 13} /\ i = 0)
                => /\ sink' = Append(sink, 10)
                   /\ password' = Padded(<<>>)
                   /\ result' = "Ok"
                   /\ pc' = "drop"]_vars

\* C7 witness: "ab", kill, newline: two marks, two erase sequences, the
\* newline, and the empty secret.
C7_Witness ==
    /\ pc = "done"
    /\ RanFeedback
    /\ faults = {}
    /\ callSource = <<97, 98, 21, 10>>
    /\ sink = <<42, 42, 8, 32, 8, 8, 32, 8, 10>>
    /\ result = "Ok"
    /\ password = Padded(<<>>)
    /\ i = 0

\* C8: in a feedback read whose display writes succeed, the end-of-input
\* code arriving with n characters entered ends the read with success and
\* an all-zero buffer, exactly n erase sequences are written and no
\* newline, and no byte after the code is consumed.
C8_EndOfInput ==
    LET cc == callTty.c_cc
        n == Before(callSource, {10, 13, cc.VEOF})
        edits == SubSeq(callSource, 1, n)
    IN (/\ pc = "done" /\ RanFeedback /\ InputRead /\ SinkWritten
        /\ n < Len(callSource)
        /\ callSource[n + 1] = cc.VEOF
        /\ Fits(edits, cc))
           => /\ result = "Ok"
              /\ password = Padded(<<>>)
              /\ sink = Shown(edits, cc) \o Repeat(<<8, 32, 8>>, Len(Line(edits, cc)))
              /\ source = Drop(callSource, n + 1)

\* C8 witness: "ab", end-of-input code, "c": two erase sequences, no
\* newline, and 'c' left in the source.
C8_Witness ==
    /\ pc = "done"
    /\ RanFeedback
    /\ faults = {}
    /\ callSource = <<97, 98, 4, 99>>
    /\ sink = <<42, 42, 8, 32, 8, 8, 32, 8>>
    /\ source = <<99>>
    /\ result = "Ok"
    /\ password = Padded(<<>>)

\* C9: in a feedback read whose display writes succeed, an ordinary byte
\* arriving with fewer than Capacity - 1 characters stored is stored in the
\* next slot and one '*' is written; arriving with Capacity - 1 stored it
\* is not stored, one erase sequence is written per mark, no newline is
\* written and the read fails with SecretTooLong.
C9_Capacity ==
    [][(/\ pc = "read_unbuffered_with_feedback"
        /\ source # <<>>
        /\ source' = Tail(source)
        /\ SinkWritten'
        /\ InputRead'
        /\ Ordinary(Head(source), hide_input[1].term_orig.c_cc))
          => /\ i < Capacity - 1
                => /\ password' = [password EXCEPT ![i + 1] = Head(source)]
                   /\ i' = i + 1
                   /\ sink' = Append(sink, 42)
                   /\ result' = "none"
                   /\ pc' = pc
             /\ i = Capacity - 1
                => /\ password' = password
                   /\ i' = i
                   /\ sink' = sink \o Repeat(<<8, 32, 8>>, i)
                   /\ result' = "SecretTooLong"
                   /\ pc' = "drop"
             /\ i <= Capacity - 1]_vars

\* C9 witness: Capacity letters: every mark drawn and erased again, and
\* SecretTooLong.
C9_Witness ==
    /\ pc = "done"
    /\ RanFeedback
    /\ faults = {}
    /\ callSource = Repeat(<<LetterA>>, Capacity)
    /\ sink = Repeat(<<42>>, Capacity - 1) \o Repeat(<<8, 32, 8>>, Capacity - 1)
    /\ result = "SecretTooLong"

\* What the silent read makes of the input s when no read fails: the
\* result, the buffer returned, and the input left.
SilentOutcome(s) ==
    LET n == Before(s, {10}) IN
    IF n <= Capacity - 1
    THEN [result |-> "Ok", password |-> Padded(SubSeq(s, 1, n)), source |-> Drop(s, n + 1)]
    ELSE [result |-> "SecretTooLong", password |-> Padded(<<>>), source |-> Drop(s, Capacity)]

\* C10: when /dev/tty cannot be opened, read_password_with_feedback does
\* not fail for that: its result and the input it leaves are those of the
\* silent read, the same as read_cleartext on that input; it writes
\* nothing to the display, takes no guard and changes no terminal setting.
C10_Fallback ==
    (pc = "done" /\ RanUnbuffered /\ op # "read_password" /\ acquired = 0)
        => /\ sink = <<>>
           /\ tty = callTty
           /\ restored = 0
           /\ result = "IoError" => ~InputRead
           /\ InputRead
                => /\ result = SilentOutcome(callSource).result
                   /\ password = SilentOutcome(callSource).password
                   /\ source = SilentOutcome(callSource).source

\* C10 witness: a feedback read that found no /dev/tty and returned the line.
C10_Witness ==
    /\ pc = "done"
    /\ op = "read_password_with_feedback"
    /\ faults = {"open"}
    /\ callSource = <<97, 98, 10, 99, 100>>
    /\ result = "Ok"
    /\ password = Padded(<<97, 98>>)
    /\ source = <<99, 100>>
    /\ sink = <<>>

\* The first k at which the edits s[1..k] would hold more than
\* Capacity - 1 characters (0 if they never do).
Overflow(s, cc) ==
    IF \E k \in 1..Len(s) : Len(Line(SubSeq(s, 1, k), cc)) > Capacity - 1
    THEN CHOOSE k \in 1..Len(s) :
            /\ Len(Line(SubSeq(s, 1, k), cc)) > Capacity - 1
            /\ \A m \in 1..(k - 1) : Len(Line(SubSeq(s, 1, m), cc)) <= Capacity - 1
    ELSE 0

\* What the feedback read makes of the input s under the control codes cc
\* when no read fails and every display write succeeds: the result, the
\* buffer returned and the input left.
FeedbackOutcome(s, cc) ==
    LET n == Before(s, {10, 13, cc.VEOF})
        edits == SubSeq(s, 1, n)
        k == Overflow(edits, cc)
    IN IF k > 0
       THEN [result |-> "SecretTooLong", password |-> Padded(<<>>), source |-> Drop(s, k)]
       ELSE IF n = Len(s)
            THEN [result |-> "Ok", password |-> Padded(Line(edits, cc)), source |-> <<>>]
            ELSE IF s[n + 1] = cc.VEOF
                 THEN [result |-> "Ok", password |-> Padded(<<>>), source |-> Drop(s, n + 1)]
                 ELSE [result |-> "Ok", password |-> Padded(Line(edits, cc)),
                       source |-> Drop(s, n + 1)]

\* C11: in a feedback read, a failed write of a mask or of an erase
\* sequence changes nothing of the outcome: the result, the buffer and the
\* input left are those of the read whose writes all succeed; a failed
\* write of the terminating newline makes the read fail with IoError, the
\* line having been read to its end.
C11_DisplayErrors ==
    LET cc == callTty.c_cc
        expected == FeedbackOutcome(callSource, cc)
    IN (pc = "done" /\ RanFeedback /\ InputRead)
          => IF "newline" \in faults
             THEN /\ result = "IoError"
                  /\ expected.result = "Ok"
                  /\ source = expected.source
                  /\ i = Len(Line(SubSeq(callSource, 1, Before(callSource, {10, 13})), cc))
             ELSE /\ result = expected.result
                  /\ password = expected.password
                  /\ source = expected.source

\* C11 witness: 'a', 'b', erase, 'c', newline with some mask or erase
\* sequence not written and the newline written: "ac" is returned.
C11_Witness ==
    /\ pc = "done"
    /\ RanFeedback
    /\ faults = {"write"}
    /\ callSource = <<97, 98, 127, 99, 10>>
    /\ callTty = Cooked
    /\ sink = <<42, 10>>
    /\ result = "Ok"
    /\ password = Padded(<<97, 99>>)

\* A call of one of the two password methods.
PasswordCall(method) == method \in {"read_password", "read_password_with_feedback"}

\* The device was opened and its settings were read and applied.
DeviceReady(failed) == failed \cap {"open", "tcgetattr", "tcsetattr"} = {}

\* C12: in read_password and read_password_with_feedback with the device
\* available, a guard is live exactly from its one acquisition to its one
\* restore; every input byte is consumed with the guard live, echo off and
\* no restore done yet; a call that returned has acquired once and restored
\* once, to the settings it found when the restore succeeds; no guard is
\* live between calls and never more than one.
C12_GuardOrdering ==
    [][ /\ Len(hide_input') <= 1
        /\ acquired' <= 1
        /\ restored' <= acquired'
        /\ (hide_input' # <<>>) <=> (acquired' = 1 /\ restored' = 0)
        /\ (pc' \in {"idle", "done"}) => (hide_input' = <<>>)
        /\ (PasswordCall(op') /\ DeviceReady(faults') /\ pc' = "done")
              => /\ acquired' = 1
                 /\ restored' = 1
                 /\ ("restore" \notin faults') => (tty' = callTty')
        /\ (PasswordCall(op) /\ DeviceReady(faults) /\ source' # source)
              => /\ hide_input # <<>>
                 /\ hide_input' = hide_input
                 /\ acquired = 1
                 /\ restored = 0
                 /\ restored' = 0
                 /\ tty.c_lflag.ECHO = FALSE
                 /\ tty' = tty
      ]_vars

\* C12 witness: read_password returned after consuming a line on a device
\* found with echo on: one guard acquired, one restore, none live.
C12_Witness ==
    /\ pc = "done"
    /\ op = "read_password"
    /\ faults = {}
    /\ callTty = Cooked
    /\ tty = Cooked
    /\ callSource = <<97, 98, 10, 99, 100>>
    /\ source = <<99, 100>>
    /\ acquired = 1
    /\ restored = 1
    /\ hide_input = <<>>

\* C13: read_cleartext builds no guard and restores nothing; at every point
\* of the call and after it the device has the settings found at the call,
\* nothing is written to the display, and the call returns what the silent
\* read makes of the input.
C13_Cleartext ==
    (op = "read_cleartext")
       => /\ tty = callTty
          /\ hide_input = <<>>
          /\ acquired = 0
          /\ restored = 0
          /\ sink = <<>>
          /\ pc \in {"read_unbuffered", "drop", "done"}
          /\ (pc = "done" /\ InputRead)
                => LET expected == SilentOutcome(callSource)
                   IN /\ result = expected.result
                      /\ password = expected.password
                      /\ source = expected.source

\* C13 witness: read_cleartext in the middle of a line, one byte stored,
\* on a device with echo and canonical mode on.
C13_Witness ==
    /\ op = "read_cleartext"
    /\ pc = "read_unbuffered"
    /\ callSource = <<97, 98, 10, 99, 100>>
    /\ source = <<98, 10, 99, 100>>
    /\ i = 1
    /\ callTty = Cooked
    /\ tty.c_lflag.ECHO

\* s is a prefix of t.
IsPrefix(s, t) == Len(s) <= Len(t) /\ s = SubSeq(t, 1, Len(s))

\* C14: prompt(text) writes to the output of the session (the device for
\* Tty, standard error for StdIE) and to nothing else; what it has written
\* is a prefix of text, in order, and when it returns Ok it is the whole of
\* text and the output was flushed; prompt consumes no input, so a read
\* that follows finds the prompt delivered.
C14_Prompt ==
    (op = "prompt")
       => /\ pc = "done"
          /\ channel = (IF kind = "Tty" THEN "/dev/tty" ELSE "stderr")
          /\ IsPrefix(sink, callText)
          /\ (result = "Ok") => (sink = callText /\ flushed)
          /\ source = callSource
          /\ tty = callTty
          /\ hide_input = <<>>

\* C14 witness: the two bytes of a prompt written to standard error and
\* flushed, the input untouched.
C14_Witness ==
    /\ op = "prompt"
    /\ pc = "done"
    /\ kind = "StdIE"
    /\ channel = "stderr"
    /\ callText = <<80, 58>>
    /\ sink = <<80, 58>>
    /\ flushed
    /\ result = "Ok"
    /\ source = <<97, 98, 10, 99, 100>>

\* C15: in a feedback read, after every byte processed the length i is
\* between 0 and Capacity - 1 and every byte of the buffer from i on is
\* zero (the buffer is indexed from 1 here: the bytes i+1..Capacity), so the
\* buffer returned is the secret followed by zeros only.
C15_BufferZeros ==
    RanFeedback
       => /\ i \in 0..(Capacity - 1)
          /\ \A k \in (i + 1)..Capacity : password[k] = 0
          /\ Len(password) = Capacity

\* C15 witness: 'a', 'b', erase consumed: one byte is kept and the slot of
\* the erased one is zero again.
C15_Witness ==
    /\ RanFeedback
    /\ pc = "read_unbuffered_with_feedback"
    /\ callTty = Cooked
    /\ callSource = <<97, 98, 127, 99, 10>>
    /\ source = <<99, 10>>
    /\ i = 1
    /\ password = <<97>> \o [k \in 1..(Capacity - 1) |-> 0]

\* C16: while a guard is live, the device has the settings of the guard's
\* backup but for three flags: echo off, newline echo on, and canonical
\* mode off when the guard was taken for the feedback read and as in the
\* backup when it was taken for read_password; the backup, control codes
\* included, stays what was read from the device when the call began.
C16_GuardMode ==
    (hide_input # <<>>)
       => LET orig == hide_input[1].term_orig IN
          /\ orig = callTty
          /\ tty.c_cc = orig.c_cc
          /\ tty.c_lflag.ECHO = FALSE
          /\ tty.c_lflag.ECHONL = TRUE
          /\ tty.c_lflag.ICANON = (IF op = "read_password_with_feedback"
                                   THEN FALSE
                                   ELSE orig.c_lflag.ICANON)

\* C16 witness: read_password in the middle of a line on a device found in
\* canonical mode with echo on: canonical mode is still on, the backup has
\* echo on.
C16_Witness ==
    /\ hide_input # <<>>
    /\ op = "read_password"
    /\ pc = "read_unbuffered"
    /\ i = 1
    /\ hide_input[1].term_orig = Cooked
    /\ tty.c_lflag.ICANON
    /\ ~tty.c_lflag.ECHO

\* C17: a silent read that fails with SecretTooLong has consumed the first
\* Capacity bytes of its input and no more: what follows them, the rest of
\* the line and its newline included, is still in the source, and the call
\* that comes next starts with exactly those bytes as its input.
C17_NoDrain ==
    [][ (pc = "done" /\ RanUnbuffered /\ InputRead /\ result = "SecretTooLong")
           => /\ source = Drop(callSource, Capacity)
              /\ source' = source
              /\ callSource' = source
      ]_vars

\* C17 witness: a silent read of Capacity letters, 'b', newline has failed
\* with SecretTooLong; 'b' and the newline are still in the source.
C17_Witness ==
    /\ pc = "done"
    /\ RanUnbuffered
    /\ faults = {}
    /\ result = "SecretTooLong"
    /\ Len(callSource) = Capacity + 2
    /\ callSource[1] = 97
    /\ source = <<98, 10>>

\* C18: when a read of the input source fails during a silent or a feedback
\* read, the call fails with that I/O error: never Ok, never SecretTooLong,
\* whatever the number of bytes stored.
C18_ReadError ==
    (pc = "done" /\ op \in ReadOps /\ "read" \in faults)
       => result = "IoError"

\* C18, the case that departs: a silent read whose Capacity - 1 slots are
\* all taken when the read fails.
C18_FullBuffer ==
    /\ pc = "done"
    /\ RanUnbuffered
    /\ "read" \in faults
    /\ i = Capacity - 1
    /\ source = Drop(callSource, Capacity - 1)
    /\ result = "SecretTooLong"

\* C19: when /dev/tty was opened and reading or applying its settings
\* failed, read_password and read_password_with_feedback have returned
\* IoError: no input byte consumed, nothing written to the display, no
\* reader run, no guard built and no restore done, the device as found.
C19_GuardFailure ==
    (PasswordCall(op) /\ faults \cap {"tcgetattr", "tcsetattr"} # {})
       => /\ pc = "done"
          /\ result = "IoError"
          /\ source = callSource
          /\ sink = <<>>
          /\ channel = "none"
          /\ i = 0
          /\ password = [k \in 1..Capacity |-> 0]
          /\ hide_input = <<>>
          /\ acquired = 0
          /\ restored = 0
          /\ tty = callTty
          /\ "open" \notin faults

\* C19 witness: read_password_with_feedback has returned after tcsetattr
\* failed, a line waiting in the input.
C19_Witness ==
    /\ op = "read_password_with_feedback"
    /\ pc = "done"
    /\ faults = {"tcsetattr"}
    /\ result = "IoError"
    /\ source = <<97, 98, 10, 99, 100>>
    /\ callTty = Cooked
    /\ tty = Cooked

\* The number of places of s that hold the byte b.
Count(s, b) == Cardinality({k \in 1..Len(s) : s[k] = b})

\* The marks a display shows after the bytes s: one more for each '*', one
\* fewer for each backspace, space, backspace (the only use of the space).
Marks(s) == Count(s, 42) - Count(s, 32)

\* C20: in a feedback read none of whose display writes failed, after every
\* byte that does not end the read the display shows as many marks as the
\* buffer holds bytes; when the read has ended by newline, carriage return,
\* the end-of-input code or SecretTooLong it shows none; the newline is
\* written once when the read ended by newline or carriage return and never
\* otherwise.
C20_DisplayAgrees ==
    LET cc == callTty.c_cc
        consumed == SubSeq(callSource, 1, Len(callSource) - Len(source))
        last == consumed[Len(consumed)]
        ended == pc \in {"drop", "done"}
        byLineEnd == ended /\ consumed # <<>> /\ last \in {10, 13}
        byEof == ended /\ consumed # <<>> /\ last = cc.VEOF
        byTooLong == ended /\ result = "SecretTooLong"
    IN (RanFeedback /\ SinkWritten)
          => /\ (pc = "read_unbuffered_with_feedback") => (Marks(sink) = i)
             /\ (byLineEnd \/ byEof \/ byTooLong) => (Marks(sink) = 0)
             /\ Count(sink, 10) = (IF byLineEnd THEN 1 ELSE 0)

\* C20 witness: 'a', 'b', kill consumed with every write done: two marks
\* drawn, two erased, the buffer empty, the read going on.
C20_Witness ==
    /\ RanFeedback
    /\ faults = {}
    /\ pc = "read_unbuffered_with_feedback"
    /\ callSource = <<97, 98, 21, 10>>
    /\ source = <<10>>
    /\ i = 0
    /\ sink = <<42, 42, 8, 32, 8, 8, 32, 8>>

====
